---- MODULE Spec2Model ----
(***************************************************************************)
(* A model of the 93Cx6 serial EEPROM driver (eeprom_93cx6.py): the        *)
(* geometry resolver, the command framing, the bit-banged transport on     *)
(* the CS/SK/DI/DO lines, the erase/write-enable latch and the ready       *)
(* poll, driven against a model of the chip at the other end of the wire.  *)
(***************************************************************************)
EXTENDS Integers, Sequences, FiniteSets, TLC

(***************************************************************************)
(* Bounds of the exploration.                                              *)
(***************************************************************************)
\* longest read_sequential request explored
MaxLen == 3
\* longest programming time of the chip, in ready polls
MaxBusy == 1
\* number of Device operations called in one run
MaxOps == 4

(***************************************************************************)
(* Module-level constants of the driver.                                   *)
(***************************************************************************)
EEPROM_MODE_8BIT == 1
EEPROM_MODE_16BIT == 2

OP_CONTROL == 0
OP_WRITE == 1
OP_READ == 2
OP_ERASE == 3

CC_EW_DISABLE == 0
CC_WRITE_ALL == 1
CC_ERASE_ALL == 2
CC_EW_ENABLE == 3

(***************************************************************************)
(* Python's integer operators on the values the driver applies them to.    *)
(* value << n, and a & b, a | b for b >= 0 (a may be negative: Python      *)
(* integers are two's complement of unbounded width).                      *)
(***************************************************************************)
RECURSIVE Pow2(_)
Pow2(n) == IF n <= 0 THEN 1 ELSE 2 * Pow2(n - 1)

Shl(a, n) == a * Pow2(n)

RECURSIVE BitAnd(_, _)
BitAnd(a, b) ==
    IF b = 0 THEN 0
    ELSE (a % 2) * (b % 2) + 2 * BitAnd(a \div 2, b \div 2)

RECURSIVE BitOr(_, _)
BitOr(a, b) ==
    IF a = 0 THEN b
    ELSE IF b = 0 THEN a
    ELSE (IF a % 2 = 1 \/ b % 2 = 1 THEN 1 ELSE 0) + 2 * BitOr(a \div 2, b \div 2)

(***************************************************************************)
(* Geometry resolver.                                                      *)
(***************************************************************************)
Models == {46, 56, 66, 76, 86}
Orgs == {EEPROM_MODE_8BIT, EEPROM_MODE_16BIT}

\* get_bytes_by_model with the factor of model 76 repeated for model 86
get_bytes_by_model_copied(org, model) ==
    LET byte == CASE org = EEPROM_MODE_8BIT -> 128
                  [] org = EEPROM_MODE_16BIT -> 64
    IN  IF model = 56 THEN byte * 2
        ELSE IF model = 66 THEN byte * 4
        ELSE IF model = 76 THEN byte * 8
        ELSE IF model = 86 THEN byte * 8
        ELSE byte

get_bytes_by_model(org, model) ==
    LET byte == CASE org = EEPROM_MODE_8BIT -> 128
                  [] org = EEPROM_MODE_16BIT -> 64
    IN  IF model = 56 THEN byte * 2
        ELSE IF model = 66 THEN byte * 4
        ELSE IF model = 76 THEN byte * 8
        ELSE IF model = 86 THEN byte * 16
        ELSE byte

get_addr_by_model(org, model) ==
    LET addr0 == CASE org = EEPROM_MODE_8BIT -> 7
                   [] org = EEPROM_MODE_16BIT -> 6
        addr1 == IF model = 56 \/ model = 66 THEN addr0 + 2 ELSE addr0
    IN  IF model = 76 \/ model = 86 THEN addr1 + 4 ELSE addr1

\* get_mask_by_model without the low bits or-ed in after the shift
get_mask_by_model_shift_only(org, model) ==
    LET mask0 == CASE org = EEPROM_MODE_8BIT -> 127
                   [] org = EEPROM_MODE_16BIT -> 63
        mask1 == IF model = 56 \/ model = 66 THEN Shl(mask0, 2) ELSE mask0
    IN  IF model = 76 \/ model = 86 THEN Shl(mask1, 4) ELSE mask1

get_mask_by_model(org, model) ==
    LET mask0 == CASE org = EEPROM_MODE_8BIT -> 127
                   [] org = EEPROM_MODE_16BIT -> 63
        mask1 == IF model = 56 \/ model = 66 THEN Shl(mask0, 2) + 3 ELSE mask0
    IN  IF model = 76 \/ model = 86 THEN Shl(mask1, 4) + 15 ELSE mask1

\* the word width the driver shifts for an organization (num_bits)
num_bits_of(org) ==
    CASE org = EEPROM_MODE_16BIT -> 16
      [] org = EEPROM_MODE_8BIT -> 8

(***************************************************************************)
(* The four lines.  An event is one call on a pin: on()/off() on CS, SK    *)
(* or DI (pin "cs", "sk", "di" with the level driven) or value() on DO     *)
(* (pin "do" with the level read).                                         *)
(***************************************************************************)
Ev(pin, v) == [pin |-> pin, v |-> v]

Lines0 == [cs |-> 0, sk |-> 0, di |-> 0]

SetLine(l, e) ==
    CASE e.pin = "cs" -> [l EXCEPT !.cs = e.v]
      [] e.pin = "sk" -> [l EXCEPT !.sk = e.v]
      [] e.pin = "di" -> [l EXCEPT !.di = e.v]
      [] OTHER -> l

(***************************************************************************)
(* The chip at the other end of the lines: a 93Cx6 that starts             *)
(* write-protected and erased, decodes the frames clocked into it on SK    *)
(* rising edges while CS is high, stores what they tell it, and shows      *)
(* busy (0) / ready (1) on DO when CS is raised again after a programming  *)
(* cycle was started.                                                      *)
(***************************************************************************)
ChipWords(org, model) ==
    IF org = EEPROM_MODE_8BIT
    THEN CASE model = 46 -> 128 [] model = 56 -> 256 [] model = 66 -> 512
           [] model = 76 -> 1024 [] model = 86 -> 2048
    ELSE CASE model = 46 -> 64 [] model = 56 -> 128 [] model = 66 -> 256
           [] model = 76 -> 512 [] model = 86 -> 1024

ChipAddrBits(org, model) ==
    IF org = EEPROM_MODE_8BIT
    THEN CASE model = 46 -> 7 [] model \in {56, 66} -> 9 [] model \in {76, 86} -> 11
    ELSE CASE model = 46 -> 6 [] model \in {56, 66} -> 8 [] model \in {76, 86} -> 10

ChipWordBits(org) == IF org = EEPROM_MODE_8BIT THEN 8 ELSE 16

ChipErased(org) == Pow2(ChipWordBits(org)) - 1

Chip0(org, model) ==
    [org |-> org, model |-> model,
     ew |-> FALSE,                 \* write-enable state, protected at power-up
     dflt |-> ChipErased(org),     \* content of every cell not in cells
     cells |-> {},                 \* <<address, word>> of the cells that differ
     pending |-> FALSE,            \* a programming cycle was started
     busy |-> 0,                   \* ready polls the cycle still takes
     tprog |-> 0,                  \* duration of the next programming cycle
     dead |-> FALSE,               \* faulty: never reports ready
     phase |-> "standby", sr |-> 0, n |-> 0, ptr |-> 0, all |-> FALSE,
     do |-> 0]

MemRead(c, a) ==
    IF \E p \in c.cells : p[1] = a
    THEN (CHOOSE p \in c.cells : p[1] = a)[2]
    ELSE c.dflt

MemWrite(c, a, v) ==
    [c EXCEPT !.cells = {p \in c.cells : p[1] # a}
                        \cup (IF v = c.dflt THEN {} ELSE {<<a, v>>})]

MemFill(c, v) == [c EXCEPT !.dflt = v, !.cells = {}]

\* the chip starts its self-timed programming cycle
ChipProgram(c) ==
    [c EXCEPT !.pending = TRUE, !.busy = c.tprog, !.phase = "done"]

\* the level the chip puts on DO
ChipDO(c, l) ==
    IF l.cs = 0 THEN 0
    ELSE IF c.phase = "status" THEN (IF c.busy = 0 /\ ~c.dead THEN 1 ELSE 0)
    ELSE c.do

\* start bit, opcode and operand are in: act on the instruction
ChipDecode(c, op, operand) ==
    LET A == ChipAddrBits(c.org, c.model)
        a == operand % ChipWords(c.org, c.model)
        sub == operand \div Pow2(A - 2)
        idle == [c EXCEPT !.phase = "done"]
    IN  CASE op = 2 -> [c EXCEPT !.phase = "read", !.ptr = a, !.n = 0, !.do = 0]
          [] op = 1 -> [c EXCEPT !.phase = "data", !.ptr = a, !.all = FALSE,
                                 !.sr = 0, !.n = 0]
          [] op = 3 -> IF c.ew THEN ChipProgram(MemWrite(c, a, ChipErased(c.org)))
                       ELSE idle
          [] op = 0 ->
               CASE sub = 3 -> [idle EXCEPT !.ew = TRUE]
                 [] sub = 0 -> [idle EXCEPT !.ew = FALSE]
                 [] sub = 2 -> IF c.ew THEN ChipProgram(MemFill(c, ChipErased(c.org)))
                               ELSE idle
                 [] sub = 1 -> [c EXCEPT !.phase = "data", !.all = TRUE,
                                         !.sr = 0, !.n = 0]

\* a rising edge of SK while CS is high
ChipClock(c, di) ==
    LET A == ChipAddrBits(c.org, c.model)
        W == ChipWordBits(c.org)
        sr2 == 2 * c.sr + di
        n2 == c.n + 1
    IN  CASE c.phase = "start" ->
               IF di = 1 THEN [c EXCEPT !.phase = "cmd", !.sr = 0, !.n = 0] ELSE c
          [] c.phase = "cmd" ->
               IF n2 < A + 2 THEN [c EXCEPT !.sr = sr2, !.n = n2]
               ELSE ChipDecode(c, sr2 \div Pow2(A), sr2 % Pow2(A))
          [] c.phase = "data" ->
               IF n2 < W THEN [c EXCEPT !.sr = sr2, !.n = n2]
               ELSE IF ~c.ew THEN [c EXCEPT !.phase = "done"]
               ELSE IF c.all THEN ChipProgram(MemFill(c, sr2))
               ELSE ChipProgram(MemWrite(c, c.ptr, sr2))
          [] c.phase = "read" ->
               LET bit == (MemRead(c, c.ptr) \div Pow2(W - 1 - c.n)) % 2
               IN  IF n2 < W THEN [c EXCEPT !.do = bit, !.n = n2]
                   ELSE [c EXCEPT !.do = bit, !.n = 0,
                                  !.ptr = (c.ptr + 1) % ChipWords(c.org, c.model)]
          [] OTHER -> c

\* the chip's reaction to one event on the lines, l the levels before it
ChipStep(c, l, e) ==
    CASE e.pin = "cs" /\ e.v = 1 /\ l.cs = 0 ->
               [c EXCEPT !.phase = IF c.pending THEN "status" ELSE "start",
                         !.sr = 0, !.n = 0, !.do = 0]
      [] e.pin = "cs" /\ e.v = 0 /\ l.cs = 1 ->
               [c EXCEPT !.phase = "standby", !.sr = 0, !.n = 0, !.do = 0,
                         !.ptr = 0, !.all = FALSE,
                         !.pending = IF c.phase = "status" /\ c.busy = 0
                                     THEN FALSE ELSE c.pending]
      [] e.pin = "sk" /\ e.v = 1 /\ l.sk = 0 /\ l.cs = 1 -> ChipClock(c, l.di)
      [] OTHER -> c

(***************************************************************************)
(* The driver's pin calls evs played on the lines against the chip: the    *)
(* chip and the lines afterwards, and the calls with the level each DO     *)
(* read returned.                                                          *)
(***************************************************************************)
\* one pin call
Drive1(c, l, e) ==
    IF e.pin = "do"
    THEN [chip |-> c, lines |-> l, log |-> <<Ev("do", ChipDO(c, l))>>]
    ELSE [chip |-> ChipStep(c, l, e), lines |-> SetLine(l, e), log |-> <<e>>]

\* the outcome of two stretches of calls, one after the other
Then(r1, r2) ==
    [chip |-> r2.chip, lines |-> r2.lines, log |-> r1.log \o r2.log]

\* the calls evs[lo..hi], in order (the stretch is halved, and each half's
\* outcome is bound to a value before the next is played)
RECURSIVE DriveRange(_, _, _, _, _)
DriveRange(c, l, evs, lo, hi) ==
    IF lo > hi THEN [chip |-> c, lines |-> l, log |-> <<>>]
    ELSE IF lo = hi THEN Drive1(c, l, evs[lo])
    ELSE LET mid == (lo + hi) \div 2
         IN  CHOOSE r \in UNION {
                 { Then(r1, r2) :
                     r2 \in {DriveRange(r1.chip, r1.lines, evs, mid + 1, hi)} } :
                 r1 \in {DriveRange(c, l, evs, lo, mid)} } : TRUE

Drive(c, l, evs) ==
    CHOOSE r \in { DriveRange(c0, l0, e0, 1, Len(e0)) :
                     c0 \in {c}, l0 \in {l}, e0 \in {evs} } : TRUE

\* the levels the DO reads of a log returned, in order
Samples(log) ==
    LET IsRead(e) == e.pin = "do"
        reads == SelectSeq(log, IsRead)
    IN  [i \in 1..Len(reads) |-> reads[i].v]

(***************************************************************************)
(* State.                                                                  *)
(***************************************************************************)
VARIABLES
    pc,        \* "idle": ready for a call; "wait_ready": inside the ready
               \* poll of a call; "done": the call has returned or raised
               \* and its caller holds the result; "raised": the
               \* constructor raised, there is no Device
    self,      \* the Device's attributes assigned so far
    lines,     \* the levels of CS, SK and DI
    chip,      \* the chip on the lines
    wire,      \* the pin calls of the latest call, in order
    call,      \* the latest call and its arguments
    outcome,   \* "returned", "ValueError" or "running"
    ret,       \* what the latest call returned: <<>> for None, <<v>> for a
               \* value, the list itself for read_sequential
    written,   \* history: <<addr, value>> of the latest write that went out
               \* on the wire with nothing programmed since, else <<>>
    nops       \* number of operations called

vars == <<pc, self, lines, chip, wire, call, outcome, ret, written, nops>>

Call(op, addr, value, length) ==
    [op |-> op, addr |-> addr, value |-> value, length |-> length]

(***************************************************************************)
(* Device.__init__                                                         *)
(***************************************************************************)
\* the arguments explored: the supported models and organizations, and
\* unsupported ones
ModelArgs == Models \cup {99}
OrgArgs == Orgs \cup {0, 3}

\* __init__ with the organization checked after the pins are created
__init__pins_first(model, org) ==
    IF model \notin {46, 56, 66, 76, 86}
    THEN [raised |-> TRUE, self |-> [model |-> model]]
    ELSE IF org \notin {EEPROM_MODE_8BIT, EEPROM_MODE_16BIT}
    THEN [raised |-> TRUE,
          self |-> [model |-> model, org |-> org,
                    cs |-> "OUT", sk |-> "OUT", di |-> "OUT", do |-> "IN"]]
    ELSE [raised |-> FALSE,
          self |-> [model |-> model, org |-> org,
                    cs |-> "OUT", sk |-> "OUT", di |-> "OUT", do |-> "IN",
                    bytes |-> get_bytes_by_model(org, model),
                    addr |-> get_addr_by_model(org, model),
                    mask |-> get_mask_by_model(org, model),
                    _ew |-> FALSE]]

__init__(model, org) ==
    IF model \notin {46, 56, 66, 76, 86}
    THEN [raised |-> TRUE, self |-> [model |-> model]]
    ELSE IF org \notin {EEPROM_MODE_8BIT, EEPROM_MODE_16BIT}
    THEN [raised |-> TRUE, self |-> [model |-> model, org |-> org]]
    ELSE [raised |-> FALSE,
          self |-> [model |-> model, org |-> org,
                    cs |-> "OUT", sk |-> "OUT", di |-> "OUT", do |-> "IN",
                    bytes |-> get_bytes_by_model(org, model),
                    addr |-> get_addr_by_model(org, model),
                    mask |-> get_mask_by_model(org, model),
                    _ew |-> FALSE]]

\* the chip wired to the Device: the one the constructor was told about
ChipFor(model, org) ==
    IF model \in Models /\ org \in Orgs THEN Chip0(org, model)
    ELSE Chip0(EEPROM_MODE_16BIT, 46)

Init ==
    \E model \in ModelArgs, org \in OrgArgs :
        LET r == __init__(model, org)
        IN  /\ pc = IF r.raised THEN "raised" ELSE "idle"
            /\ self = r.self
            /\ lines = Lines0
            /\ chip = ChipFor(model, org)
            /\ wire = <<>>
            /\ call = [op |-> "__init__", model |-> model, org |-> org]
            /\ outcome = IF r.raised THEN "ValueError" ELSE "returned"
            /\ ret = <<>>
            /\ written = <<>>
            /\ nops = 0

(***************************************************************************)
(* Bit-level transport.                                                    *)
(***************************************************************************)
\* send_bits: for i from length-1 down to 0, DI to bit i of value, SK
\* high, SK low
RECURSIVE send_bits_from(_, _)
send_bits_from(value, i) ==
    IF i < 0 THEN <<>>
    ELSE <<Ev("di", IF BitAnd(value, Shl(1, i)) # 0 THEN 1 ELSE 0),
           Ev("sk", 1), Ev("sk", 0)>> \o send_bits_from(value, i - 1)

\* send_bits going up from bit 0
send_bits_lsb_first(value, length) ==
    [i \in 1..(3 * length) |->
        CASE i % 3 = 1 ->
                 Ev("di", IF BitAnd(value, Shl(1, (i - 1) \div 3)) # 0 THEN 1 ELSE 0)
          [] i % 3 = 2 -> Ev("sk", 1)
          [] OTHER -> Ev("sk", 0)]

send_bits(value, length) == send_bits_from(value, length - 1)

\* shift_in without the last sk.off
shift_in_clock_left_high(n) ==
    [i \in 1..(3 * n - 1) |->
        CASE i % 3 = 1 -> Ev("sk", 1)
          [] i % 3 = 2 -> Ev("do", 0)
          [] OTHER -> Ev("sk", 0)]

\* the inner loop of read and read_sequential: num_bits times SK high, read
\* DO, SK low
shift_in(n) ==
    [i \in 1..(3 * n) |->
        CASE i % 3 = 1 -> Ev("sk", 1)
          [] i % 3 = 2 -> Ev("do", 0)
          [] OTHER -> Ev("sk", 0)]

\* read_value after that loop, bits the levels read in order: the level
\* read at step i (num_bits down to 1) is or-ed in at bit i-1
RECURSIVE read_value(_, _, _)
read_value(bits, from, n) ==
    IF n <= 0 THEN 0
    ELSE BitOr(read_value(bits, from + 1, n - 1), Shl(bits[from], n - 1))

\* the calls explored, played against the chip, whose next programming
\* cycle takes t polls
Play(evs, t) ==
    Drive([chip EXCEPT !.tprog = t], lines, evs)

Played(r) ==
    /\ chip' = [r.chip EXCEPT !.tprog = 0]
    /\ lines' = r.lines
    /\ wire' = r.log

\* an operation can be called
CanCall == pc = "idle" /\ nops < MaxOps

(***************************************************************************)
(* Device operations.                                                      *)
(***************************************************************************)
\* control_frame with the sub-command left in the two lowest bits
control_frame_unshifted(cc) ==
    BitOr(Shl(OP_CONTROL, self.addr), cc)

control_frame(cc) ==
    BitOr(Shl(OP_CONTROL, self.addr), Shl(cc, self.addr - 2))

ew_enable ==
    /\ CanCall
    /\ \E r \in {Play(<<Ev("cs", 1)>> \o send_bits(1, 1)
                      \o send_bits(control_frame(CC_EW_ENABLE), self.addr + 2)
                      \o <<Ev("cs", 0)>>, 0)} : Played(r)
    /\ self' = [self EXCEPT !._ew = TRUE]
    /\ pc' = "done"
    /\ call' = Call("ew_enable", 0, 0, 0)
    /\ outcome' = "returned"
    /\ ret' = <<>>
    /\ nops' = nops + 1
    /\ UNCHANGED written

ew_disable ==
    /\ CanCall
    /\ \E r \in {Play(<<Ev("cs", 1)>> \o send_bits(1, 1)
                      \o send_bits(control_frame(CC_EW_ENABLE), self.addr + 2)
                      \o <<Ev("cs", 0)>>, 0)} : Played(r)
    /\ self' = [self EXCEPT !._ew = FALSE]
    /\ pc' = "done"
    /\ call' = Call("ew_disable", 0, 0, 0)
    /\ outcome' = "returned"
    /\ ret' = <<>>
    /\ nops' = nops + 1
    /\ UNCHANGED written

\* NoWire with the latch cleared on the way out
NoWire_latch_cleared(c, how, rv) ==
    /\ call' = c
    /\ outcome' = how
    /\ ret' = rv
    /\ wire' = <<>>
    /\ pc' = "done"
    /\ nops' = nops + 1
    /\ self' = [self EXCEPT !._ew = FALSE]
    /\ UNCHANGED <<lines, chip, written>>

\* a call that ends without touching a pin: it returns rv, or raises
NoWire(c, how, rv) ==
    /\ call' = c
    /\ outcome' = how
    /\ ret' = rv
    /\ wire' = <<>>
    /\ pc' = "done"
    /\ nops' = nops + 1
    /\ UNCHANGED <<self, lines, chip, written>>

ew_enabled ==
    /\ CanCall
    /\ NoWire(Call("ew_enabled", 0, 0, 0), "returned", <<self._ew>>)

\* validate_addr with the upper limit one too high
validate_addr_off_by_one(addr) == addr < 0 \/ addr > self.bytes

\* validate_addr raises
validate_addr(addr) == addr < 0 \/ addr > (self.bytes - 1)

\* Program with CS held high from the frame into wait_ready
Program_cs_held(c, evs, t, w) ==
    /\ \E r \in {Play(evs \o <<Ev("cs", 1)>>, t)} : Played(r)
    /\ pc' = "wait_ready"
    /\ call' = c
    /\ outcome' = "running"
    /\ ret' = <<>>
    /\ written' = w
    /\ nops' = nops + 1
    /\ UNCHANGED self

\* a call that sends evs, then goes on into wait_ready up to its loop
Program(c, evs, t, w) ==
    /\ \E r \in {Play(evs \o <<Ev("cs", 0), Ev("cs", 1)>>, t)} : Played(r)
    /\ pc' = "wait_ready"
    /\ call' = c
    /\ outcome' = "running"
    /\ ret' = <<>>
    /\ written' = w
    /\ nops' = nops + 1
    /\ UNCHANGED self

\* the number of DO reads a log ends with
RECURSIVE TrailingReads(_, _)
TrailingReads(log, i) ==
    IF i = 0 \/ log[i].pin # "do" THEN 0 ELSE 1 + TrailingReads(log, i - 1)

\* the log keeps the first MaxPolls reads of a ready poll; further turns
\* of a poll that never ends repeat the last one
MaxPolls == MaxBusy + 2

Polled(log, reads) ==
    IF TrailingReads(log, Len(log)) < MaxPolls THEN log \o reads ELSE log

\* wait_ready giving up after MaxPolls low reads
wait_ready_timeout ==
    /\ pc = "wait_ready"
    /\ LET r == Drive(chip, lines, <<Ev("do", 0)>>)
           q == Drive(chip, lines, <<Ev("do", 0), Ev("cs", 0)>>)
       IN  IF r.log[1].v # 1 /\ TrailingReads(wire, Len(wire)) < MaxPolls
           THEN /\ chip' = [chip EXCEPT !.busy = IF chip.busy > 0 THEN chip.busy - 1 ELSE 0]
                /\ wire' = Polled(wire, r.log)
                /\ UNCHANGED <<pc, lines, outcome>>
           ELSE /\ chip' = q.chip
                /\ lines' = q.lines
                /\ wire' = wire \o q.log
                /\ pc' = "done"
                /\ outcome' = IF r.log[1].v = 1 THEN "returned" ELSE "HardwareTimeout"
    /\ UNCHANGED <<self, call, ret, written, nops>>

\* wait_ready reading DO once and returning whatever it read
wait_ready_one_poll ==
    /\ pc = "wait_ready"
    /\ \E q \in {Drive(chip, lines, <<Ev("do", 0), Ev("cs", 0)>>)} :
           /\ chip' = q.chip
           /\ lines' = q.lines
           /\ wire' = wire \o q.log
           /\ pc' = "done"
           /\ outcome' = "returned"
    /\ UNCHANGED <<self, call, ret, written, nops>>

\* one turn of the loop of wait_ready: DO is read; high ends the loop, CS
\* goes low and the call returns; low sleeps DELAY_WAIT, during which the
\* chip's programming cycle goes on
wait_ready ==
    /\ pc = "wait_ready"
    /\ LET r == Drive(chip, lines, <<Ev("do", 0)>>)
       IN  IF r.log[1].v # 1
           THEN /\ chip' = [chip EXCEPT !.busy = IF chip.busy > 0 THEN chip.busy - 1 ELSE 0]
                /\ wire' = Polled(wire, r.log)
                /\ UNCHANGED <<pc, lines, outcome>>
           ELSE LET q == Drive(chip, lines, <<Ev("do", 0), Ev("cs", 0)>>)
                IN  /\ chip' = q.chip
                    /\ lines' = q.lines
                    /\ wire' = wire \o q.log
                    /\ pc' = "done"
                    /\ outcome' = "returned"
    /\ UNCHANGED <<self, call, ret, written, nops>>

erase_all ==
    /\ CanCall
    /\ IF ~self._ew
       THEN NoWire(Call("erase_all", 0, 0, 0), "returned", <<>>)
       ELSE \E t \in 0..MaxBusy :
              Program(Call("erase_all", 0, 0, 0),
                      <<Ev("cs", 1)>> \o send_bits(1, 1)
                      \o send_bits(control_frame(CC_ERASE_ALL), self.addr + 2),
                      t, <<>>)

\* addressed_frame with addr or-ed in as it was passed
addressed_frame_unmasked(op, addr) ==
    BitOr(Shl(op, self.addr), addr)

addressed_frame(op, addr) ==
    BitOr(Shl(op, self.addr), BitAnd(addr, self.mask))

erase(addr) ==
    /\ CanCall
    /\ IF ~self._ew
       THEN NoWire(Call("erase", addr, 0, 0), "returned", <<>>)
       ELSE \E t \in 0..MaxBusy :
              Program(Call("erase", addr, 0, 0),
                      <<Ev("cs", 1)>> \o send_bits(1, 1)
                      \o send_bits(addressed_frame(OP_ERASE, addr), self.addr + 2),
                      t, <<>>)

\* write_all's data bits with the 16-bit branch repeated for 8-bit words
write_all_payload_16_always(value) ==
    IF self.org = EEPROM_MODE_16BIT THEN send_bits(BitAnd(value, 65535), 16)
    ELSE IF self.org = EEPROM_MODE_8BIT THEN send_bits(BitAnd(value, 65535), 16)
    ELSE <<>>

\* the data bits write_all sends
write_all_payload(value) ==
    IF self.org = EEPROM_MODE_16BIT THEN send_bits(BitAnd(value, 65535), 16)
    ELSE IF self.org = EEPROM_MODE_8BIT THEN send_bits(BitAnd(value, 255), 8)
    ELSE <<>>

write_all(value) ==
    /\ CanCall
    /\ IF ~self._ew
       THEN NoWire(Call("write_all", 0, value, 0), "returned", <<>>)
       ELSE \E t \in 0..MaxBusy :
              Program(Call("write_all", 0, value, 0),
                      <<Ev("cs", 1)>> \o send_bits(1, 1)
                      \o send_bits(control_frame(CC_WRITE_ALL), self.addr + 2)
                      \o write_all_payload(value),
                      t, <<>>)

\* write's data bits with the 16-bit branch repeated for 8-bit words
write_payload_16_always(value) ==
    IF self.org = EEPROM_MODE_16BIT THEN send_bits(BitAnd(value, 65535), 16)
    ELSE IF self.org = EEPROM_MODE_8BIT THEN send_bits(BitAnd(value, 65535), 16)
    ELSE <<>>

\* the data bits write sends
write_payload(value) ==
    IF self.org = EEPROM_MODE_16BIT THEN send_bits(BitAnd(value, 65535), 16)
    ELSE IF self.org = EEPROM_MODE_8BIT THEN send_bits(BitAnd(value, 65535), 8)
    ELSE <<>>

\* write with the address validated before the latch is looked at
write_validate_first(addr, value) ==
    /\ CanCall
    /\ IF validate_addr(addr)
       THEN NoWire(Call("write", addr, value, 0), "ValueError", <<>>)
       ELSE IF ~self._ew
       THEN NoWire(Call("write", addr, value, 0), "returned", <<>>)
       ELSE \E t \in 0..MaxBusy :
              Program(Call("write", addr, value, 0),
                      <<Ev("cs", 1)>> \o send_bits(1, 1)
                      \o send_bits(addressed_frame(OP_WRITE, addr), self.addr + 2)
                      \o write_payload(value),
                      t, <<addr, value>>)

write(addr, value) ==
    /\ CanCall
    /\ IF ~self._ew
       THEN NoWire(Call("write", addr, value, 0), "returned", <<>>)
       ELSE IF validate_addr(addr)
       THEN NoWire(Call("write", addr, value, 0), "ValueError", <<>>)
       ELSE \E t \in 0..MaxBusy :
              Program(Call("write", addr, value, 0),
                      <<Ev("cs", 1)>> \o send_bits(1, 1)
                      \o send_bits(addressed_frame(OP_WRITE, addr), self.addr + 2)
                      \o write_payload(value),
                      t, <<addr, value>>)

\* a call that has sent its frame and read its words, with outcome r on the
\* lines, returns rv
Fetched(c, r, rv) ==
    /\ Played(r)
    /\ call' = c
    /\ outcome' = "returned"
    /\ ret' = rv
    /\ pc' = "done"
    /\ nops' = nops + 1
    /\ UNCHANGED <<self, written>>

read(addr) ==
    /\ CanCall
    /\ IF validate_addr(addr)
       THEN NoWire(Call("read", addr, 0, 0), "ValueError", <<>>)
       ELSE LET num_bits == num_bits_of(self.org)
            IN  \E r \in {Play(<<Ev("cs", 1)>> \o send_bits(1, 1)
                               \o send_bits(addressed_frame(OP_READ, addr),
                                            self.addr + 2)
                               \o shift_in(num_bits)
                               \o <<Ev("cs", 0)>>, 0)} :
                  Fetched(Call("read", addr, 0, 0), r,
                          <<read_value(Samples(r.log), 1, num_bits)>>)

\* the test that ends the loop of read_sequential early
read_sequential_break(addr, count) == addr + count > self.bytes

\* the number of words the loop of read_sequential reads, from turn count
RECURSIVE read_sequential_words(_, _, _)
read_sequential_words(addr, count, length) ==
    IF count >= length \/ read_sequential_break(addr, count) THEN 0
    ELSE 1 + read_sequential_words(addr, count + 1, length)

\* read_sequential raising CS and sending a start bit and a read frame
\* anew for every word
read_sequential_reframed(addr, length) ==
    /\ CanCall
    /\ IF validate_addr(addr)
       THEN NoWire(Call("read_sequential", addr, 0, length), "ValueError", <<>>)
       ELSE LET num_bits == num_bits_of(self.org)
                words == read_sequential_words(addr, 0, length)
                each == 3 * (self.addr + 3) + 3 * num_bits + 2
                one(k) == <<Ev("cs", 1)>> \o send_bits(1, 1)
                          \o send_bits(addressed_frame(OP_READ, addr + k),
                                       self.addr + 2)
                          \o shift_in(num_bits) \o <<Ev("cs", 0)>>
            IN  \E w \in {[k \in 0..(words - 1) |-> one(k)]} :
                \E r \in {Play([i \in 1..(words * each) |->
                                   w[(i - 1) \div each][((i - 1) % each) + 1]], 0)} :
                  \E bits \in {Samples(r.log)} :
                    Fetched(Call("read_sequential", addr, 0, length), r,
                            [k \in 1..words |->
                                read_value(bits, (k - 1) * num_bits + 1, num_bits)])

read_sequential(addr, length) ==
    /\ CanCall
    /\ IF validate_addr(addr)
       THEN NoWire(Call("read_sequential", addr, 0, length), "ValueError", <<>>)
       ELSE LET num_bits == num_bits_of(self.org)
                words == read_sequential_words(addr, 0, length)
            IN  \E r \in {Play(<<Ev("cs", 1)>> \o send_bits(1, 1)
                               \o send_bits(addressed_frame(OP_READ, addr),
                                            self.addr + 2)
                               \o shift_in(words * num_bits)
                               \o <<Ev("cs", 0)>>, 0)} :
                  \E bits \in {Samples(r.log)} :
                    Fetched(Call("read_sequential", addr, 0, length), r,
                            [k \in 1..words |->
                                read_value(bits, (k - 1) * num_bits + 1, num_bits)])

\* the caller has the result of the call and is ready for its next call
Return ==
    /\ pc = "done"
    /\ pc' = "idle"
    /\ call' = Call("", 0, 0, 0)
    /\ outcome' = ""
    /\ ret' = <<>>
    /\ wire' = <<>>
    /\ UNCHANGED <<self, lines, chip, written, nops>>

(***************************************************************************)
(* The arguments explored.                                                 *)
(***************************************************************************)
\* below the range, inside it (0x31 and the last word), and above it
AddrArgs == {-1, 49, self.bytes - 1, self.bytes}
\* 0x66AF and 0x1A5C3, wider than a word
ValueArgs == {-2, 26287, 108995}
LengthArgs == 0..MaxLen

Next ==
    \/ ew_enable
    \/ ew_disable
    \/ ew_enabled
    \/ erase_all
    \/ CanCall /\ \E addr \in AddrArgs : erase(addr)
    \/ \E value \in ValueArgs : write_all(value)
    \/ CanCall /\ \E addr \in AddrArgs, value \in ValueArgs : write(addr, value)
    \/ CanCall /\ \E addr \in AddrArgs : read(addr)
    \/ CanCall /\ \E addr \in AddrArgs, length \in LengthArgs :
                      read_sequential(addr, length)
    \/ wait_ready
    \/ Return

Spec == Init /\ [][Next]_vars

(***************************************************************************)
(* The same Device on lines whose chip may be faulty and never report      *)
(* ready.  The driver is one blocking thread: a loop that can take its     *)
(* next turn takes it.                                                     *)
(***************************************************************************)
InitFault ==
    \E model \in Models, org \in Orgs, dead \in BOOLEAN :
        /\ pc = "idle"
        /\ self = __init__(model, org).self
        /\ lines = Lines0
        /\ chip = [ChipFor(model, org) EXCEPT !.dead = dead]
        /\ wire = <<>>
        /\ call = [op |-> "__init__", model |-> model, org |-> org]
        /\ outcome = "returned"
        /\ ret = <<>>
        /\ written = <<>>
        /\ nops = 0

SpecFault == InitFault /\ [][Next]_vars /\ WF_vars(wait_ready)

(***************************************************************************)
(* What a call put on the wire.                                            *)
(***************************************************************************)
\* the positions of the SK rising edges in a log
RisingEdges(log) ==
    LET IsUp(i) == log[i] = Ev("sk", 1)
    IN  SelectSeq([i \in 1..Len(log) |-> i], IsUp)

\* the level of DI after the first i calls of a log, di0 the level before it
DIAt(log, i, di0) ==
    LET sets == {j \in 1..i : log[j].pin = "di"}
    IN  IF sets = {} THEN di0
        ELSE log[CHOOSE j \in sets : \A k \in sets : k <= j].v

\* the DI levels presented at the successive SK rising edges of a log
ClockedBits(log) ==
    LET ups == RisingEdges(log)
    IN  [k \in 1..Len(ups) |-> DIAt(log, ups[k], 0)]

Zeros(n) == [k \in 1..n |-> 0]

\* the call whose result is held was op
Did(op) == pc = "done" /\ call.op = op

WordMask == IF self.org = EEPROM_MODE_16BIT THEN 65535 ELSE 255

\* the documented geometry: word count, address width, address mask
C1_Table(org, model) ==
    IF org = EEPROM_MODE_8BIT
    THEN CASE model = 46 -> <<128, 7, 127>>
           [] model = 56 -> <<256, 9, 511>>
           [] model = 66 -> <<512, 9, 511>>
           [] model = 76 -> <<1024, 11, 2047>>
           [] model = 86 -> <<2048, 11, 2047>>
    ELSE CASE model = 46 -> <<64, 6, 63>>
           [] model = 56 -> <<128, 8, 255>>
           [] model = 66 -> <<256, 8, 255>>
           [] model = 76 -> <<512, 10, 1023>>
           [] model = 86 -> <<1024, 10, 1023>>

(***************************************************************************)
(* C1.  For each of the 10 supported (organization, model) pairs the       *)
(* geometry the constructor resolves (word count, address width, address   *)
(* mask) is the documented triple.                                         *)
(***************************************************************************)
C1_Geometry ==
    pc # "raised" =>
        <<self.bytes, self.addr, self.mask>> = C1_Table(self.org, self.model)

C1_Witness ==
    /\ pc = "idle" /\ call.op = "__init__"
    /\ self.model = 56 /\ self.org = EEPROM_MODE_16BIT
    /\ self.bytes = 128 /\ self.addr = 8 /\ self.mask = 255

(***************************************************************************)
(* C2.  A read of the address of the latest write that went out with the   *)
(* latch enabled (nothing programmed since, with or without an             *)
(* ew_disable in between) returns the value written, masked to the word    *)
(* width of the organization.                                              *)
(***************************************************************************)
C2_ReadBack ==
    (Did("read") /\ outcome = "returned" /\ written # <<>>
        /\ written[1] = call.addr)
    => ret = <<written[2] % (WordMask + 1)>>

C2_Witness ==
    /\ Did("read") /\ outcome = "returned"
    /\ self.model = 56 /\ self.org = EEPROM_MODE_16BIT
    /\ ~self._ew
    /\ written = <<49, 26287>> /\ call.addr = 49
    /\ ret = <<26287>>

(***************************************************************************)
(* C3.  With the latch false, write, erase, write_all and erase_all, with  *)
(* any arguments, return normally, call no pin at all and leave the lines  *)
(* and the chip (its memory included) as they were.                        *)
(***************************************************************************)
C3_DisabledNoOp ==
    [][(pc = "idle" /\ ~self._ew
          /\ call'.op \in {"write", "erase", "write_all", "erase_all"})
       => (/\ pc' = "done" /\ outcome' = "returned" /\ ret' = <<>>
           /\ wire' = <<>>
           /\ lines' = lines /\ chip' = chip /\ self' = self)]_vars

C3_Witness ==
    /\ Did("write") /\ ~self._ew /\ call.addr = -1
    /\ outcome = "returned" /\ wire = <<>>
    /\ chip.cells = {} /\ chip.dflt = ChipErased(self.org)

(***************************************************************************)
(* C4.  ew_disable sends the control frame of the disable-write            *)
(* sub-command: start bit 1, opcode 00, sub-command 00, then               *)
(* address-width - 2 zeros; afterwards the latch is false.                 *)
(***************************************************************************)
C4_DisableFrame ==
    Did("ew_disable") =>
        /\ ClockedBits(wire) = <<1, 0, 0, 0, 0>> \o Zeros(self.addr - 2)
        /\ ~self._ew

(***************************************************************************)
(* C5.  Between calls the latch equals the chip's write-enable state.      *)
(***************************************************************************)
C5_LatchMirrorsChip ==
    pc \in {"idle", "done"} => self._ew = chip.ew

(***************************************************************************)
(* C6.  read_sequential(addr, count) from a valid addr returns             *)
(* word_count - addr words when addr + count > word_count, and count       *)
(* words otherwise.                                                        *)
(***************************************************************************)
C6_SequentialLength ==
    (Did("read_sequential") /\ outcome = "returned") =>
        Len(ret) = IF call.addr + call.length > self.bytes
                   THEN self.bytes - call.addr
                   ELSE call.length

(***************************************************************************)
(* C7.  erase(addr) with the latch enabled and addr outside                *)
(* [0, word_count) raises the address error before any pin is called.      *)
(***************************************************************************)
C7_EraseValidates ==
    (pc \in {"done", "wait_ready"} /\ call.op = "erase" /\ self._ew
        /\ (call.addr < 0 \/ call.addr >= self.bytes))
    => (outcome = "ValueError" /\ wire = <<>>)

(***************************************************************************)
(* C8.  read, read_sequential and, with the latch enabled, write raise     *)
(* the address error exactly when addr < 0 or addr >= word_count, and      *)
(* then call no pin and leave the lines, the chip and the latch as they    *)
(* were.                                                                   *)
(***************************************************************************)
C8_AddressValidation ==
    [][(pc = "idle"
          /\ (\/ call'.op \in {"read", "read_sequential"}
              \/ call'.op = "write" /\ self._ew))
       => IF call'.addr < 0 \/ call'.addr >= self.bytes
          THEN /\ outcome' = "ValueError" /\ pc' = "done"
               /\ wire' = <<>>
               /\ lines' = lines /\ chip' = chip /\ self' = self
          ELSE outcome' # "ValueError"]_vars

C8_Witness ==
    /\ Did("read") /\ call.addr = self.bytes
    /\ outcome = "ValueError" /\ wire = <<>>

\* the number a sequence of bits, most significant first, spells
RECURSIVE BitsValue(_, _)
BitsValue(bits, n) ==
    IF n = 0 THEN 0 ELSE 2 * BitsValue(bits, n - 1) + bits[n]

\* the address field of the frame a log carries
FrameAddress(log) ==
    LET bits == ClockedBits(log)
    IN  BitsValue(SubSeq(bits, 4, self.addr + 3), self.addr)

(***************************************************************************)
(* C9.  For every supported configuration the mask the constructor         *)
(* resolves keeps every valid address: addr & mask = addr for all addr in  *)
(* [0, word_count), and the address bits of the frame of a read that       *)
(* passed validation are the address passed.                               *)
(***************************************************************************)
C9_MaskKeepsAddress ==
    /\ (pc = "idle" /\ call.op = "__init__") =>
           \A a \in 0..(self.bytes - 1) : BitAnd(a, self.mask) = a
    /\ (Did("read") /\ outcome = "returned") => FrameAddress(wire) = call.addr

C9_Witness ==
    /\ Did("read") /\ outcome = "returned"
    /\ self.bytes = 2048 /\ call.addr = 2047
    /\ BitAnd(call.addr, self.mask) = 2047
    /\ FrameAddress(wire) = 2047

(***************************************************************************)
(* C10.  The constructor called with a model outside {46,56,66,76,86} or   *)
(* an organization outside {8-bit, 16-bit} raises before any pin is        *)
(* created or driven and before any geometry or latch is set.              *)
(***************************************************************************)
C10_ConstructorFailsFast ==
    (call.op = "__init__"
        /\ (call.model \notin {46, 56, 66, 76, 86} \/ call.org \notin {1, 2}))
    => /\ pc = "raised" /\ outcome = "ValueError"
       /\ DOMAIN self \cap {"cs", "sk", "di", "do",
                            "bytes", "addr", "mask", "_ew"} = {}
       /\ wire = <<>> /\ lines = Lines0

C10_Witness ==
    /\ pc = "raised" /\ call.op = "__init__" /\ call.model = 99
    /\ DOMAIN self = {"model"}

(***************************************************************************)
(* C11.  The ready poll has no timeout.  On a chip that never reports      *)
(* ready, a call that has entered the poll stays in it for ever, CS high;  *)
(* on a chip that does report ready, the poll ends and the call returns.   *)
(***************************************************************************)
C11_NoTimeout ==
    /\ [][(pc = "wait_ready" /\ chip.dead)
          => (pc' = "wait_ready" /\ lines'.cs = 1 /\ outcome' = "running")]_vars
    /\ [](pc = "wait_ready" => lines.cs = 1)
    /\ (pc = "wait_ready" /\ ~chip.dead) ~> (pc = "done" /\ outcome = "returned")

C11_Witness ==
    /\ pc = "wait_ready" /\ chip.dead /\ lines.cs = 1
    /\ call.op = "write"
    /\ TrailingReads(wire, Len(wire)) = MaxPolls

(***************************************************************************)
(* The order of the pin calls of a call.                                   *)
(***************************************************************************)
\* the positions in a log of the calls on a pin
PinCalls(log, pin) ==
    LET OnPin(i) == log[i].pin = pin
    IN  SelectSeq([i \in 1..Len(log) |-> i], OnPin)

\* the levels of the calls on a pin, in order
PinLevels(log, pin) ==
    LET at == PinCalls(log, pin)
    IN  [k \in 1..Len(at) |-> log[at[k]].v]

\* the operations that program the chip
ProgramOps == {"write", "erase", "write_all", "erase_all"}

\* a programming operation that went out on the wire is in its ready poll
\* or has returned
Programming ==
    pc \in {"wait_ready", "done"} /\ call.op \in ProgramOps /\ wire # <<>>

\* C12 as claimed: in a programming operation CS is raised once, first of
\* all pin calls, and lowered once, last of all pin calls
C12_CsHeldThroughout ==
    (Programming /\ pc = "done") =>
        /\ PinLevels(wire, "cs") = <<1, 0>>
        /\ wire[1] = Ev("cs", 1)
        /\ wire[Len(wire)] = Ev("cs", 0)

(***************************************************************************)
(* C12 (amended).  In a programming operation CS is raised first of all    *)
(* pin calls and stays high through the start bit, the command and the     *)
(* payload; it is then lowered and at once raised again by wait_ready,     *)
(* stays high through every poll of DO, and is lowered for the second and  *)
(* last time after the poll has ended, last of all pin calls.              *)
(***************************************************************************)
C12_CsEnvelope ==
    Programming =>
        LET cs == PinCalls(wire, "cs")
        IN  /\ PinLevels(wire, "cs") =
                   IF pc = "done" THEN <<1, 0, 1, 0>> ELSE <<1, 0, 1>>
            /\ cs[1] = 1
            /\ cs[3] = cs[2] + 1
            /\ \A i \in 1..Len(wire) :
                   /\ wire[i].pin \in {"sk", "di"} => i < cs[2]
                   /\ wire[i].pin = "do" => i > cs[3]
            /\ pc = "done" => cs[4] = Len(wire)

C12_Witness ==
    /\ Programming /\ pc = "done" /\ call.op = "write_all"
    /\ PinLevels(wire, "cs") = <<1, 0, 1, 0>>
    /\ PinLevels(wire, "do") = <<0, 1>>

\* the level of a pin after the first i calls of a log that began with the
\* pin low
PinAt(log, i, pin) ==
    LET sets == {j \in 1..i : log[j].pin = pin}
    IN  IF sets = {} THEN 0
        ELSE log[CHOOSE j \in sets : \A k \in sets : k <= j].v

C14_OneFramePerCall ==
    (Did("read_sequential") /\ outcome = "returned") =>
        LET ups    == RisingEdges(wire)
            head   == self.addr + 3
            sent   == 3 * head + 1
            bits   == ClockedBits(wire)
            n      == Len(ret) * num_bits_of(self.org)
        IN  /\ PinLevels(wire, "cs") = <<1, 0>>
            /\ Len(ups) = head + n
            /\ SubSeq(bits, 1, 3) = <<1, 1, 0>>
            /\ ups[head] = sent - 1
            /\ \A i \in (sent + 1)..Len(wire) : wire[i].pin # "di"
            /\ \A i \in 2..sent : wire[i].pin # "do"
            /\ Len(wire) = sent + 3 * n + 1
            /\ \A i \in 1..(3 * n) :
                   /\ wire[sent + i].pin = shift_in(n)[i].pin
                   /\ wire[sent + i].pin = "sk" => wire[sent + i] = shift_in(n)[i]

C14_Witness ==
    /\ Did("read_sequential") /\ outcome = "returned"
    /\ Len(ret) = MaxLen
    /\ call.addr > 0
    /\ Len(RisingEdges(wire)) = self.addr + 3 + MaxLen * num_bits_of(self.org)

\* bit i (0 the lowest) of a natural number
BitOf(v, i) == (v \div Pow2(i)) % 2

\* an addressed operation went out on the wire with a valid address
Addressed(op) ==
    /\ pc \in {"wait_ready", "done"}
    /\ call.op = op
    /\ wire # <<>>
    /\ call.addr \in 0..(self.bytes - 1)

\* the bits of an addressed frame as the devices take them: start bit, two
\* opcode bits, address_width address bits from the highest down
AddressedBits(o1, o0, addr) ==
    <<1, o1, o0>> \o [k \in 1..self.addr |-> BitOf(addr, self.addr - k)]

(***************************************************************************)
(* C15.  read, and write and erase with the latch enabled, called with a   *)
(* valid address, present on DI at the successive SK rising edges the      *)
(* start bit 1, the opcode from its higher bit (READ 10, WRITE 01, ERASE   *)
(* 11) and the address_width bits of addr from the highest down: the       *)
(* value (opcode << address_width) | (addr & mask) in address_width + 2    *)
(* pulses after the start bit, followed by nothing but the payload.        *)
(***************************************************************************)
C15_AddressedFrame ==
    \A op \in {"read", "write", "erase"} :
        Addressed(op) =>
            LET bits == ClockedBits(wire)
                code == CASE op = "read" -> OP_READ
                          [] op = "write" -> OP_WRITE
                          [] OTHER -> OP_ERASE
                head == SubSeq(bits, 1, self.addr + 3)
            IN  /\ head = CASE op = "read" -> AddressedBits(1, 0, call.addr)
                            [] op = "write" -> AddressedBits(0, 1, call.addr)
                            [] OTHER -> AddressedBits(1, 1, call.addr)
                /\ BitsValue(SubSeq(bits, 2, self.addr + 3), self.addr + 2)
                       = BitOr(Shl(code, self.addr), BitAnd(call.addr, self.mask))
                /\ Len(bits) = self.addr + 3
                               + (IF op = "erase" THEN 0 ELSE num_bits_of(self.org))

C15_Witness ==
    /\ Addressed("erase") /\ pc = "done" /\ outcome = "returned"
    /\ call.addr = 49
    /\ SubSeq(ClockedBits(wire), 1, 3) = <<1, 1, 1>>
    /\ BitsValue(SubSeq(ClockedBits(wire), 4, self.addr + 3), self.addr) = 49

\* a control operation went out on the wire
Controlled(op) ==
    pc \in {"wait_ready", "done"} /\ call.op = op /\ wire # <<>>

\* the bits of a control frame as the devices take them: start bit, opcode
\* 00, two sub-command bits, address_width - 2 zeros
ControlBits(s1, s0) == <<1, 0, 0, s1, s0>> \o Zeros(self.addr - 2)

(***************************************************************************)
(* C16.  ew_enable, and erase_all and write_all with the latch enabled,    *)
(* send after the start bit the value (CONTROL << address_width) |         *)
(* (sub << (address_width - 2)) in address_width + 2 pulses from the       *)
(* highest bit down: 00, the sub-command (enable 11, erase-all 10,         *)
(* write-all 01), then address_width - 2 zeros; only write_all sends       *)
(* more, its payload.                                                      *)
(***************************************************************************)
C16_ControlFrame ==
    \A op \in {"ew_enable", "erase_all", "write_all"} :
        Controlled(op) =>
            LET bits == ClockedBits(wire)
                cc == CASE op = "ew_enable" -> CC_EW_ENABLE
                        [] op = "erase_all" -> CC_ERASE_ALL
                        [] OTHER -> CC_WRITE_ALL
            IN  /\ SubSeq(bits, 1, self.addr + 3) =
                       CASE op = "ew_enable" -> ControlBits(1, 1)
                         [] op = "erase_all" -> ControlBits(1, 0)
                         [] OTHER -> ControlBits(0, 1)
                /\ BitsValue(SubSeq(bits, 2, self.addr + 3), self.addr + 2)
                       = BitOr(Shl(OP_CONTROL, self.addr), Shl(cc, self.addr - 2))
                /\ Len(bits) = self.addr + 3
                               + (IF op = "write_all" THEN num_bits_of(self.org) ELSE 0)

C16_Witness ==
    /\ Controlled("erase_all") /\ pc = "done" /\ outcome = "returned"
    /\ self.addr > 6
    /\ ClockedBits(wire) = ControlBits(1, 0)

\* the bits a log carries after its start bit and frame
PayloadBits(log) ==
    LET bits == ClockedBits(log)
    IN  SubSeq(bits, self.addr + 4, Len(bits))

(***************************************************************************)
(* C17.  The data bits of write and write_all are a field of fixed width,  *)
(* whatever address_width is: 16 bits holding value & 0xFFFF for 16-bit    *)
(* words and 8 bits holding value & 0xFF for 8-bit words, sent from the    *)
(* highest bit down, for every value passed, wider than the word and       *)
(* negative ones too.                                                      *)
(***************************************************************************)
C17_PayloadWidth ==
    \A op \in {"write", "write_all"} :
        Controlled(op) =>
            LET data  == PayloadBits(wire)
                width == IF self.org = EEPROM_MODE_16BIT THEN 16 ELSE 8
                word  == BitAnd(call.value, Pow2(width) - 1)
            IN  /\ Len(data) = width
                /\ \A k \in 1..width : data[k] = BitOf(word, width - k)
                /\ BitsValue(data, width) = word

C17_Witness ==
    /\ Controlled("write") /\ pc = "done" /\ outcome = "returned"
    /\ self.org = EEPROM_MODE_8BIT
    /\ call.value = 108995
    /\ Len(PayloadBits(wire)) = 8
    /\ BitsValue(PayloadBits(wire), 8) = 195
    /\ written = <<49, 108995>>

(***************************************************************************)
(* C18.  The latch is false after construction, ew_enable leaves it true   *)
(* and ew_disable leaves it false, and no other step changes it: read,     *)
(* read_sequential, ew_enabled, write, write_all, erase and erase_all      *)
(* leave it as it was whether they return, skip as a no-op, raise the      *)
(* address error or wait for the chip.                                     *)
(***************************************************************************)
C18_LatchFrame ==
    /\ [](pc = "idle" /\ nops = 0 => self._ew = FALSE)
    /\ [][pc # "raised" =>
            /\ (pc = "idle" /\ call'.op = "ew_enable") => self'._ew = TRUE
            /\ (pc = "idle" /\ call'.op = "ew_disable") => self'._ew = FALSE
            /\ ~(pc = "idle" /\ call'.op \in {"ew_enable", "ew_disable"})
                   => self'._ew = self._ew]_vars

C18_Witness ==
    /\ Did("write") /\ outcome = "ValueError"
    /\ self._ew = TRUE
    /\ wire = <<>>

\* the level of a pin after the first i calls of a log that began with the
\* pin low, found by going back from call i to the last call on the pin
RECURSIVE LastOn(_, _, _)
LastOn(log, i, pin) ==
    IF i <= 0 THEN 0
    ELSE IF log[i].pin = pin THEN log[i].v
    ELSE LastOn(log, i - 1, pin)

\* the level before call i of a pin that began low, at the positions of the
\* calls on that pin
LevelBefore(log, at, i) ==
    LET before == {k \in 1..Len(at) : at[k] < i}
    IN  IF before = {} THEN 0 ELSE log[at[Cardinality(before)]].v

(***************************************************************************)
(* C19.  Every SK rising edge of a call, of a bit sent or of a bit read,   *)
(* is made with CS high; DI is set only with SK low; and a call that drove *)
(* the lines and returned has left CS and SK low.                          *)
(***************************************************************************)
C19_LineDiscipline ==
    pc \in {"wait_ready", "done"} =>
        /\ \E cs \in {PinCalls(wire, "cs")} :
               \A i \in 1..Len(wire) :
                   /\ wire[i] = Ev("sk", 1) =>
                          /\ LevelBefore(wire, cs, i) = 1
                          /\ LastOn(wire, i - 1, "sk") = 0
                   /\ wire[i].pin = "di" => LastOn(wire, i, "sk") = 0
        /\ (pc = "done" /\ outcome = "returned" /\ wire # <<>>) =>
               /\ lines.cs = 0 /\ lines.sk = 0
               /\ LastOn(wire, Len(wire), "cs") = 0
               /\ LastOn(wire, Len(wire), "sk") = 0

C19_Witness ==
    /\ Did("read_sequential") /\ outcome = "returned"
    /\ Len(ret) >= 2
    /\ lines.cs = 0 /\ lines.sk = 0
    /\ \E i \in 1..(Len(wire) - 1) :
           wire[i] = Ev("sk", 1) /\ wire[i + 1].pin = "do"
    /\ \E i \in 2..Len(wire) :
           wire[i] = Ev("sk", 1) /\ wire[i - 1].pin = "di"

\* addresses inside and outside the device, negative and wider than the
\* address field among them
AnyAddrs ==
    AddrArgs \cup {0, -Pow2(self.addr), Pow2(self.addr), Pow2(self.addr + 2) + 1}

(***************************************************************************)
(* C20.  In every supported configuration the mask is 2^address_width - 1  *)
(* and word_count is at most 2^address_width, so the frame of every        *)
(* addressed opcode is opcode * 2^address_width plus a masked address that *)
(* lies in [0, 2^address_width): the opcode bits are the opcode whatever   *)
(* address is passed, and an erase that sends a negative or too large      *)
(* address clocks out 11 and the low address_width bits of it.             *)
(***************************************************************************)
C20_OpcodeBitsKept ==
    pc # "raised" =>
        LET size == Pow2(self.addr)
        IN  /\ self.mask = size - 1
            /\ self.bytes <= size
            /\ nops = 0 =>
                   \A op \in {OP_WRITE, OP_READ, OP_ERASE}, addr \in AnyAddrs :
                       LET frame == addressed_frame(op, addr)
                       IN  /\ frame \div size = op
                           /\ frame % size = BitAnd(addr, self.mask)
                           /\ frame % size = addr % size
            /\ Controlled("erase") =>
                   SubSeq(ClockedBits(wire), 1, self.addr + 3)
                       = AddressedBits(1, 1, call.addr % size)

C20_Witness ==
    /\ Controlled("erase") /\ pc = "done" /\ outcome = "returned"
    /\ call.addr = -1
    /\ self.bytes = Pow2(self.addr)
    /\ SubSeq(ClockedBits(wire), 1, 3) = <<1, 1, 1>>
    /\ FrameAddress(wire) = self.mask

====
